---- MODULE Spec2Model ----
(***************************************************************************)
(* A model of the E2B MCP server: the session map of E2BServer             *)
(* (getSandbox, the periodic cleanup, the SIGINT handler), the call-tool   *)
(* pipeline of index.ts and the ToolHandler.handle pipeline with its tool  *)
(* bodies.  Strings the code inspects character by character (local paths, *)
(* allow-lists, error messages) are sequences of one-character strings.    *)
(***************************************************************************)
EXTENDS Integers, Sequences, FiniteSets, TLC

VARIABLES sessions, now, nSandboxes, calls, nCalls, delivered, server, env, swept, passDone

vars == <<sessions, now, nSandboxes, calls, nCalls, delivered, server, env, swept, passDone>>

(***************************************************************************)
(* Bounds of the model.                                                    *)
(***************************************************************************)
\* calls over the life of the server, calls in flight at a time, clock steps
MaxCalls == 3
MaxInFlight == 2
MaxTicks == 2

(***************************************************************************)
(* Program constants.                                                      *)
(***************************************************************************)
SESSION_TIMEOUT == 30 * 60 * 1000
SWEEP_INTERVAL == 5 * 60 * 1000
\* The model's clock advances in steps of the idle threshold (six sweep intervals).
ClockStep == SESSION_TIMEOUT

(***************************************************************************)
(* Character strings.                                                      *)
(***************************************************************************)
Sep == "/"

RECURSIVE StartsWithFrom(_, _, _)
StartsWithFrom(s, p, i) ==
    IF i > Len(p) THEN TRUE
    ELSE IF i > Len(s) THEN FALSE
    ELSE s[i] = p[i] /\ StartsWithFrom(s, p, i + 1)

\* String.prototype.startsWith
StartsWith(s, p) == StartsWithFrom(s, p, 1)

\* String.prototype.includes
Includes(s, sub) ==
    \E i \in 0..Len(s) :
        /\ i + Len(sub) <= Len(s)
        /\ \A j \in 1..Len(sub) : s[i + j] = sub[j]

RECURSIVE SplitFrom(_, _, _, _)
SplitFrom(s, sep, i, cur) ==
    IF i > Len(s) THEN <<cur>>
    ELSE IF s[i] = sep THEN <<cur>> \o SplitFrom(s, sep, i + 1, <<>>)
    ELSE SplitFrom(s, sep, i + 1, Append(cur, s[i]))

\* String.prototype.split with a one-character separator
Split(s, sep) == SplitFrom(s, sep, 1, <<>>)

RECURSIVE JoinFrom(_, _, _)
JoinFrom(parts, sep, i) ==
    IF i > Len(parts) THEN <<>>
    ELSE IF i = Len(parts) THEN parts[i]
    ELSE parts[i] \o <<sep>> \o JoinFrom(parts, sep, i + 1)

Join(parts, sep) == JoinFrom(parts, sep, 1)

(***************************************************************************)
(* path.normalize and path.basename of Node's posix path module, which     *)
(* index.ts and the upload/download tools import.                          *)
(***************************************************************************)
RECURSIVE NormalizeSegs(_, _, _, _)
NormalizeSegs(segs, i, allowAboveRoot, res) ==
    IF i > Len(segs) THEN res
    ELSE LET seg == segs[i] IN
         IF seg = <<>> \/ seg = <<".">>
           THEN NormalizeSegs(segs, i + 1, allowAboveRoot, res)
         ELSE IF seg = <<".", ".">>
           THEN IF Len(res) > 0 /\ res[Len(res)] # <<".", ".">>
                  THEN NormalizeSegs(segs, i + 1, allowAboveRoot, SubSeq(res, 1, Len(res) - 1))
                ELSE IF allowAboveRoot
                  THEN NormalizeSegs(segs, i + 1, allowAboveRoot, Append(res, seg))
                ELSE NormalizeSegs(segs, i + 1, allowAboveRoot, res)
         ELSE NormalizeSegs(segs, i + 1, allowAboveRoot, Append(res, seg))

Normalize(p) ==
    IF Len(p) = 0 THEN <<".">>
    ELSE LET isAbsolute == p[1] = Sep
             trailingSeparator == p[Len(p)] = Sep
             body == Join(NormalizeSegs(Split(p, Sep), 1, ~isAbsolute, <<>>), Sep)
         IN  IF Len(body) = 0
               THEN IF isAbsolute THEN <<Sep>>
                    ELSE IF trailingSeparator THEN <<".", Sep>> ELSE <<".">>
             ELSE (IF isAbsolute THEN <<Sep>> ELSE <<>>) \o body
                  \o (IF trailingSeparator THEN <<Sep>> ELSE <<>>)

RECURSIVE StripTrailingSep(_)
StripTrailingSep(p) ==
    IF Len(p) > 0 /\ p[Len(p)] = Sep THEN StripTrailingSep(SubSeq(p, 1, Len(p) - 1)) ELSE p

Basename(p) ==
    LET q == StripTrailingSep(p)
        parts == Split(q, Sep)
    IN  parts[Len(parts)]

(***************************************************************************)
(* Texts the code searches for or builds.                                  *)
(***************************************************************************)
NotFoundText == <<"n", "o", "t", " ", "f", "o", "u", "n", "d">>
ENOENTText == <<"E", "N", "O", "E", "N", "T">>
ExistsPrefix == <<"F", "i", "l", "e", " ", "a", "l", "r", "e", "a", "d", "y", " ", "e", "x", "i", "s", "t", "s", " ", "a", "t", " ">>
ExistsSuffix == <<" ", "a", "n", "d", " ", "o", "v", "e", "r", "w", "r", "i", "t", "e", " ", "i", "s", " ", "s", "e", "t", " ", "t", "o", " ", "f", "a", "l", "s", "e">>
NullText == <<"n", "u", "l", "l">>
QuotesText == <<"\"", "\"">>

(***************************************************************************)
(* JavaScript values of request arguments, tagged by their type.           *)
(***************************************************************************)
Undef == [t |-> "undefined"]
Null == [t |-> "null"]
Num == [t |-> "number"]
Str(v) == [t |-> "string", v |-> v]
Bool(b) == [t |-> "boolean", v |-> b]

IsStr(x) == x.t = "string"
\* truthiness of an optional string: undefined, null and "" are falsy
\* (session ids are TLA+ strings, path texts are character sequences)
TruthyId(x) == IF x.t = "string" THEN x.v # "" ELSE FALSE
TruthyText(x) == IF x.t = "string" THEN x.v # <<>> ELSE FALSE

(***************************************************************************)
(* The zod schemas.  A schema gives each field it declares a kind; a field *)
(* it does not declare is stripped by safeParse.                           *)
(***************************************************************************)
Fields == {"code", "path", "content", "local_path", "sandbox_path", "overwrite",
           "command", "background", "session_id"}

toolSchema == [code |-> "string", session_id |-> "string?"]
readFileSchema == [path |-> "string", session_id |-> "string?"]
writeFileSchema == [path |-> "string", content |-> "string", session_id |-> "string?"]
uploadFileSchema == [local_path |-> "string", sandbox_path |-> "string?null",
                     overwrite |-> "boolean=true", session_id |-> "string?"]
downloadFileSchema == [sandbox_path |-> "string", local_path |-> "string",
                       overwrite |-> "boolean=false", session_id |-> "string?"]
commandSchema == [command |-> "string", background |-> "boolean?", session_id |-> "string?"]
commandSchemaV1 == [command |-> "string", session_id |-> "string?"]

\* a faulty schema: an optional string accepts a value of any type
FieldOkAnyOptional(kind, x) ==
    IF kind = "string?" THEN TRUE
    ELSE kind = "string" => x.t = "string"

FieldOk(kind, x) ==
    CASE kind = "string" -> x.t = "string"
      [] kind = "string?" -> x.t \in {"string", "undefined"}
      [] kind = "string?null" -> x.t \in {"string", "undefined", "null"}
      [] kind \in {"boolean?", "boolean=true", "boolean=false"} -> x.t \in {"boolean", "undefined"}

FieldData(kind, x) ==
    IF x.t = "undefined" /\ kind = "boolean=true" THEN Bool(TRUE)
    ELSE IF x.t = "undefined" /\ kind = "boolean=false" THEN Bool(FALSE)
    ELSE x

\* schema.safeParse(arguments).success
ParseOk(schema, args) == \A f \in DOMAIN schema : FieldOk(schema[f], args[f])

\* schema.safeParse(arguments).data
ParseData(schema, args) ==
    [f \in Fields |-> IF f \in DOMAIN schema THEN FieldData(schema[f], args[f]) ELSE Undef]

(***************************************************************************)
(* The tools.  impl "index" is the call-tool handler of index.ts, which    *)
(* dispatches on the tool name; impl "handler" is ToolHandler.handle of    *)
(* the tool object of that name; "handler_v1" is the first                 *)
(* ExecuteCommandTool of execute-command-tool.ts.                          *)
(***************************************************************************)
IndexTools == {"run_code", "read_file", "write_file", "execute_command", "upload_file"}
HandlerTools == {"run_code", "read_file", "write_file", "execute_command",
                 "upload_file", "download_file"}

\* a faulty chain: a name no branch tests for falls into the first branch
IndexBranchFallsThrough(name) == IF name \in IndexTools THEN name ELSE "run_code"

\* the branch of the if/else-if chain of index.ts a tool name takes
IndexBranch(name) == IF name \in IndexTools THEN name ELSE "unknown"

SchemaOf(impl, name) ==
    CASE impl = "handler_v1" -> commandSchemaV1
      [] name = "run_code" -> toolSchema
      [] name = "read_file" -> readFileSchema
      [] name = "write_file" -> writeFileSchema
      [] name = "execute_command" -> commandSchema
      [] name = "upload_file" -> uploadFileSchema
      [] name = "download_file" -> downloadFileSchema

(***************************************************************************)
(* The session map: a JavaScript Map, i.e. entries in insertion order,     *)
(* at most one per key.                                                    *)
(***************************************************************************)
MapHas(m, id) == \E i \in 1..Len(m) : m[i].id = id

MapIndex(m, id) == CHOOSE i \in 1..Len(m) : m[i].id = id

MapGet(m, id) == m[MapIndex(m, id)]

\* a faulty map: set always adds an entry
MapSetAppends(m, id, sandbox, t) ==
    Append(m, [id |-> id, sandbox |-> sandbox, lastAccessed |-> t])

\* a faulty map: set leaves the value of an existing key alone
MapSetKeepsFirst(m, id, sandbox, t) ==
    IF MapHas(m, id) THEN m
    ELSE Append(m, [id |-> id, sandbox |-> sandbox, lastAccessed |-> t])

\* Map.prototype.set: replaces the value of an existing key in place
MapSet(m, id, sandbox, t) ==
    LET e == [id |-> id, sandbox |-> sandbox, lastAccessed |-> t]
    IN  IF MapHas(m, id) THEN [m EXCEPT ![MapIndex(m, id)] = e] ELSE Append(m, e)

MapDeleteAt(m, i) == SubSeq(m, 1, i - 1) \o SubSeq(m, i + 1, Len(m))

\* a faulty comparison: a session idle for exactly the threshold counts as expired
ExpiredAtThreshold(entry, t) == t - entry.lastAccessed >= SESSION_TIMEOUT

Expired(entry, t) == t - entry.lastAccessed > SESSION_TIMEOUT

\* the for-of loop of the cleanup timer: deleting the current entry of a Map
\* while iterating it continues with the entry that followed it
RECURSIVE SweepFrom(_, _, _)
SweepFrom(m, i, t) ==
    IF i > Len(m) THEN m
    ELSE IF Expired(m[i], t) THEN SweepFrom(MapDeleteAt(m, i), i, t)
    ELSE SweepFrom(m, i + 1, t)

\* a faulty pass: it stops at the first expired entry it deletes
SweepPassStopsAtFirst(m, t) ==
    IF \E i \in 1..Len(m) : Expired(m[i], t)
      THEN MapDeleteAt(m, CHOOSE i \in 1..Len(m) :
                             Expired(m[i], t) /\ \A j \in 1..(i - 1) : ~Expired(m[j], t))
      ELSE m

SweepPass(m, t) == SweepFrom(m, 1, t)

\* a faulty getSandbox: it never finds the session
SessionHitNever(m, sid) == FALSE

\* getSandbox, the branch taken: a supplied, non-empty id that is in the map
SessionHit(m, sid) == TruthyId(sid) /\ MapHas(m, sid.v)

\* session.lastAccessed = Date.now()
Touch(m, id, t) == [m EXCEPT ![MapIndex(m, id)].lastAccessed = t]

\* sessionId || `sess_${Math.random()...}`
\* a faulty choice of id: the supplied id is dropped for a generated one
NewSessionIdAlwaysGenerated(sid, generated) == IF generated = "" THEN "sess_c" ELSE generated

NewSessionId(sid, generated) == IF TruthyId(sid) THEN sid.v ELSE generated

(***************************************************************************)
(* The allow-list check of upload_file and download_file.                  *)
(***************************************************************************)
\* process.env.X?.split(',') || []
AllowedPaths(value) == IF value.t = "undefined" THEN <<>> ELSE Split(value.v, ",")

PathMatches(normalizedPath, allowedPath) ==
    LET normalizedAllowedPath == Normalize(allowedPath)
    IN  \/ normalizedPath = normalizedAllowedPath
        \/ StartsWith(normalizedPath, normalizedAllowedPath \o <<Sep>>)

IsPathAllowed(normalizedPath, allowedPaths) ==
    \E i \in 1..Len(allowedPaths) : PathMatches(normalizedPath, allowedPaths[i])

\* a faulty resolution: the sentinel strings are taken as target paths
ResolveSandboxPathKeepsSentinels(sandbox_path, local_path) ==
    IF TruthyText(sandbox_path) THEN sandbox_path.v ELSE Basename(local_path)

\* upload_file: "null" and "\"\"" stand for null and ""; a falsy target
\* defaults to the base name of local_path
ResolveSandboxPath(sandbox_path, local_path) ==
    LET sp == IF IsStr(sandbox_path) /\ sandbox_path.v = NullText THEN Null
              ELSE IF IsStr(sandbox_path) /\ sandbox_path.v = QuotesText THEN Str(<<>>)
              ELSE sandbox_path
    IN  IF TruthyText(sp) THEN sp.v ELSE Basename(local_path)

(***************************************************************************)
(* Thrown values and responses.  A thrown value keeps the text the code    *)
(* inspects; a response keeps the fields of the envelope and of its JSON   *)
(* body that distinguish the outcomes.                                     *)
(***************************************************************************)
Err(kind, message) == [kind |-> kind, message |-> message, isError |-> TRUE]

\* a thrown value that is no instance of Error
Thrown(kind) == [kind |-> kind, message |-> <<>>, isError |-> FALSE]

AlreadyExistsError(where) == Err("AlreadyExists", ExistsPrefix \o where \o ExistsSuffix)

NoResp == [isError |-> FALSE, code |-> "", kind |-> "none", session_id |-> Undef,
           params |-> FALSE, status |-> "", body |-> {}, message |-> <<>>,
           sandbox_path |-> Undef]

ErrorResponse(code, kind, session_id) ==
    [isError |-> TRUE, code |-> code, kind |-> kind, session_id |-> session_id,
     params |-> TRUE, status |-> "", body |-> {"error"}, message |-> <<>>,
     sandbox_path |-> Undef]

\* the validation-failure response of index.ts and of ToolHandler.handle
InvalidParamsResponse == ErrorResponse("InvalidParams", "validation", Undef)

\* the else branch of the call-tool handler of index.ts
MethodNotFoundResponse == ErrorResponse("MethodNotFound", "unknown tool", Undef)

\* the catch blocks of index.ts: execute_command answers without isError, without
\* a code and without the session id; the other tools echo the supplied session_id
IndexCatch(name, session_id, err) ==
    IF name = "execute_command"
      THEN [isError |-> FALSE, code |-> "", kind |-> err.kind, session_id |-> Undef,
            params |-> FALSE, status |-> "", body |-> {"error", "stack"},
            message |-> err.message, sandbox_path |-> Undef]
      ELSE [ErrorResponse("InternalError", err.kind, session_id) EXCEPT
               !.message = err.message]

\* ErrorHandler.handle(error, toolName, params)
ErrorHandlerHandle(err) ==
    [ErrorResponse("InternalError", err.kind, Undef) EXCEPT !.message = err.message]

SuccessStatus(name, background) ==
    CASE name = "write_file" -> "File written successfully"
      [] name = "upload_file" -> "File uploaded successfully"
      [] name = "download_file" -> "File downloaded successfully"
      [] name = "execute_command" /\ background -> "Command started in background"
      [] OTHER -> ""

\* the keys of the JSON body of a success response
SuccessBody(name, background) ==
    CASE name = "run_code" -> {"error", "results", "logs", "session_id"}
      [] name = "read_file" -> {"content", "session_id"}
      [] name = "write_file" -> {"status", "session_id"}
      [] name = "upload_file" -> {"status", "local_path", "sandbox_path", "session_id"}
      [] name = "download_file" -> {"status", "sandbox_path", "local_path", "session_id"}
      [] name = "execute_command" /\ background -> {"status", "pid", "session_id"}
      [] name = "execute_command" /\ ~background -> {"stdout", "stderr", "session_id"}

SuccessResponse(name, background, sessionId) ==
    [isError |-> FALSE, code |-> "", kind |-> "ok", session_id |-> Str(sessionId),
     params |-> FALSE, status |-> SuccessStatus(name, background),
     body |-> SuccessBody(name, background), message |-> <<>>,
     sandbox_path |-> Undef]

(***************************************************************************)
(* A call: one invocation of the call-tool handler (impl "index") or of    *)
(* ToolHandler.handle (impl "handler", "handler_v1"), suspended at pc.     *)
(***************************************************************************)
NoArgs == [f \in Fields |-> Undef]

NoCall == [pc |-> "idle", impl |-> "", name |-> "", tool |-> "", args |-> NoArgs,
           newSessionId |-> "", sandbox |-> 0, sessionId |-> "",
           effects |-> <<>>, resp |-> NoResp]

Calls == 1..MaxInFlight

\* parsed.data of a call
Data(rec) == ParseData(SchemaOf(rec.impl, rec.tool), rec.args)

NormalizedPath(rec) == Normalize(Data(rec).local_path.v)

Target(rec) == ResolveSandboxPath(Data(rec).sandbox_path, Data(rec).local_path.v)

\* every tool body takes background from its arguments; the first
\* ExecuteCommandTool always runs in the foreground
Background(rec) == Data(rec).background = Bool(TRUE)

\* the external operation a call awaits at each suspension point
Awaited(name, pc) ==
    CASE pc = "create" -> "Sandbox.create"
      [] pc = "localRead" -> "fs.readFile"
      [] pc = "access" -> "fs.access"
      [] pc = "existsCheck" -> "files.read"
      [] pc = "mkdir" -> "fs.mkdir"
      [] pc = "localWrite" -> "fs.writeFile"
      [] pc = "remoteOp" /\ name = "run_code" -> "runCode"
      [] pc = "remoteOp" /\ name \in {"read_file", "download_file"} -> "files.read"
      [] pc = "remoteOp" /\ name \in {"write_file", "upload_file"} -> "files.write"
      [] pc = "remoteOp" /\ name = "execute_command" -> "commands.run"

\* commands.run with background: true settles once the process has started,
\* with background: false once it has ended or timed out
AwaitedBy(rec, pc) ==
    IF pc = "remoteOp" /\ rec.tool = "execute_command" /\ Background(rec)
      THEN "commands.run:background"
      ELSE Awaited(rec.tool, pc)

Goto(rec, pc) == [rec EXCEPT !.pc = pc, !.effects = Append(@, AwaitedBy(rec, pc))]

\* the outcome of the existence check a call awaited, noted after the operation
Settled(rec, outcome) == [rec EXCEPT !.effects = Append(@, outcome.kind)]

\* the response of a call that threw err
Failure(rec, err) ==
    IF rec.impl = "index" THEN IndexCatch(rec.tool, Data(rec).session_id, err)
    ELSE ErrorHandlerHandle(err)

Finished(rec, resp) == [rec EXCEPT !.pc = "done", !.resp = resp]

\* the sandbox_path of the success body of upload_file and download_file
ReportedPath(rec) ==
    CASE rec.tool = "upload_file" -> Str(Target(rec))
      [] rec.tool = "download_file" -> Data(rec).sandbox_path
      [] OTHER -> Undef

Succeeded(rec) ==
    Finished(rec, [SuccessResponse(rec.tool, Background(rec), rec.sessionId) EXCEPT
                      !.sandbox_path = ReportedPath(rec)])

\* what follows `await this.getSandbox(session_id)` in each tool body
AfterResolve(rec) ==
    IF rec.tool = "upload_file" /\ Data(rec).overwrite = Bool(FALSE)
      THEN Goto(rec, "existsCheck")
      ELSE Goto(rec, "remoteOp")

GenIds == <<"sess_a", "sess_b", "sess_c">>

\* the ids Math.random may produce, where the code calls it: one that is
\* already known to the map or to a call, or the first that is not
Generated(sid, known) ==
    IF TruthyId(sid) THEN {""}
    ELSE {GenIds[i] : i \in {j \in 1..Len(GenIds) :
             GenIds[j] \in known \/ \A k \in 1..(j - 1) : GenIds[k] \in known}}

\* getSandbox up to its first suspension: a hit touches the session and
\* returns; a miss picks the id and awaits Sandbox.create()
GetSandboxCall(m, rec, generated) ==
    LET sid == Data(rec).session_id IN
    IF SessionHit(m, sid)
      THEN AfterResolve([rec EXCEPT !.sandbox = MapGet(m, sid.v).sandbox,
                                    !.sessionId = sid.v])
      ELSE Goto([rec EXCEPT !.newSessionId = NewSessionId(sid, generated)], "create")

\* a faulty getSandbox: a miss reserves the supplied id before creating
GetSandboxMapReserves(m, rec, t) ==
    LET sid == Data(rec).session_id IN
    IF SessionHit(m, sid) THEN Touch(m, sid.v, t)
    ELSE IF TruthyId(sid) THEN MapSet(m, sid.v, 0, t)
    ELSE m

GetSandboxMap(m, rec, t) ==
    LET sid == Data(rec).session_id IN
    IF SessionHit(m, sid) THEN Touch(m, sid.v, t) ELSE m

(***************************************************************************)
(* Outcomes of the external operations (the sandbox service and the local  *)
(* file system), chosen by the environment.                                *)
(***************************************************************************)
RemoteFailed == Err("RemoteFailed", <<"t", "i", "m", "e", "o", "u", "t">>)
RemoteNotFound == Err("RemoteNotFound", <<"f", "i", "l", "e", " ">> \o NotFoundText)
CreateFailed == Err("CreateFailed", <<"4", "0", "1">>)
LocalReadFailed == Err("LocalReadFailed", ENOENTText)
LocalNotFound == Err("LocalNotFound", ENOENTText \o <<":", " ", "a", "c", "c", "e", "s", "s">>)
LocalAccessFailed == Err("LocalAccessFailed", <<"E", "A", "C", "C", "E", "S">>)
LocalWriteFailed == Err("LocalWriteFailed", <<"E", "I", "S", "D", "I", "R">>)
CommandExitError == Err("CommandExitError", <<"e", "x", "i", "t", " ", "1">>)

\* the operation succeeded
Ok == [kind |-> "ok", message |-> <<>>, isError |-> FALSE]

ReadOutcomes == {Ok, RemoteNotFound, RemoteFailed, Thrown("RemoteThrewValue")}
AccessOutcomes == {Ok, LocalNotFound, LocalAccessFailed}

RemoteOutcomes(rec) ==
    IF rec.tool = "execute_command" /\ ~Background(rec)
      THEN {Ok, RemoteFailed, CommandExitError}
      ELSE {Ok, RemoteFailed}

\* a faulty inner catch: it swallows whatever the check threw
RethrownNever(e, text) == FALSE

\* the inner catch of the overwrite checks: anything but an Error whose message
\* includes the text is thrown again
Rethrown(e, text) == ~e.isError \/ ~Includes(e.message, text)

\* the catch of the first ExecuteCommandTool wraps a CommandExitError
WrapCommandError(impl, e) ==
    IF impl = "handler_v1" /\ e.kind = "CommandExitError"
      THEN Err("COMMAND_FAILED", e.message)
      ELSE e

(***************************************************************************)
(* The actions.                                                            *)
(***************************************************************************)
\* a finished handler's response is sent before any other task runs
Responding == \E c \in Calls : calls[c].pc = "done"

Running == server # "exited" /\ ~Responding

SetCall(c, rec) == calls' = [calls EXCEPT ![c] = rec]

\* a tool body reaching `await this.getSandbox(session_id)`
CallGetSandbox(c, rec, generated) ==
    /\ SetCall(c, GetSandboxCall(sessions, rec, generated))
    /\ sessions' = GetSandboxMap(sessions, rec, now)

\* upload_file up to `await fs.readFile(normalizedPath)`
UploadBegin(rec, allowList) ==
    LET allowedPaths == AllowedPaths(allowList) IN
    IF Len(allowedPaths) = 0
      THEN Finished(rec, Failure(rec, Err("NoAllowedPaths", <<>>)))
    ELSE IF ~IsPathAllowed(NormalizedPath(rec), allowedPaths)
      THEN Finished(rec, Failure(rec, Err("AccessDenied", <<>>)))
    ELSE Goto(rec, "localRead")

\* download_file up to the overwrite check; "resolve" stands for reaching
\* `await this.getSandbox(session_id)`
DownloadBegin(rec, allowList) ==
    LET allowedPaths == AllowedPaths(allowList) IN
    IF Len(allowedPaths) = 0
      THEN Finished(rec, Failure(rec, Err("NoAllowedPaths", <<>>)))
    ELSE IF ~IsPathAllowed(NormalizedPath(rec), allowedPaths)
      THEN Finished(rec, Failure(rec, Err("AccessDenied", <<>>)))
    ELSE IF Data(rec).overwrite # Bool(TRUE)
      THEN Goto(rec, "access")
    ELSE [rec EXCEPT !.pc = "resolve"]

\* a request arrives: the handler runs to its first suspension
Start(c, req, generated) ==
    /\ server = "connected" /\ ~Responding
    /\ calls[c].pc = "idle"
    /\ \A d \in Calls : d < c => calls[d].pc # "idle"
    /\ nCalls < MaxCalls
    /\ nCalls' = nCalls + 1
    /\ LET tool == IF req.impl = "index" THEN IndexBranch(req.name) ELSE req.name
           rec == [NoCall EXCEPT !.impl = req.impl, !.name = req.name, !.tool = tool,
                                 !.args = req.args]
       IN  IF tool = "unknown"
             THEN SetCall(c, Finished(rec, MethodNotFoundResponse)) /\ UNCHANGED sessions
           ELSE IF ~ParseOk(SchemaOf(req.impl, tool), req.args)
             THEN SetCall(c, Finished(rec, InvalidParamsResponse)) /\ UNCHANGED sessions
           ELSE IF tool = "upload_file"
             THEN SetCall(c, UploadBegin(rec, env.upload)) /\ UNCHANGED sessions
           ELSE IF tool = "download_file" /\ DownloadBegin(rec, env.download).pc # "resolve"
             THEN SetCall(c, DownloadBegin(rec, env.download)) /\ UNCHANGED sessions
           ELSE CallGetSandbox(c, rec, generated)
    /\ UNCHANGED <<now, nSandboxes, delivered, server, env, swept, passDone>>

\* Sandbox.create() settles; on success getSandbox stores the session
CreateReturn(c, ok) ==
    /\ Running
    /\ calls[c].pc = "create"
    /\ LET rec == calls[c]
           id == rec.newSessionId
           h == nSandboxes + 1
       IN  IF ok
             THEN /\ sessions' = MapSet(sessions, id, h, now)
                  /\ nSandboxes' = h
                  /\ UNCHANGED swept
                  /\ SetCall(c, AfterResolve([rec EXCEPT !.sandbox = h, !.sessionId = id]))
             ELSE /\ SetCall(c, Finished(rec, Failure(rec, CreateFailed)))
                  /\ UNCHANGED <<sessions, nSandboxes, swept>>
    /\ UNCHANGED <<now, nCalls, delivered, server, env, passDone>>

\* upload_file: fs.readFile settles, then the body asks for the sandbox
LocalReadReturn(c, ok, generated) ==
    /\ Running
    /\ calls[c].pc = "localRead"
    /\ IF ok THEN CallGetSandbox(c, calls[c], generated)
       ELSE SetCall(c, Finished(calls[c], Failure(calls[c], LocalReadFailed)))
            /\ UNCHANGED sessions
    /\ UNCHANGED <<now, nSandboxes, nCalls, delivered, server, env, swept, passDone>>

\* upload_file with overwrite false: the remote read of the target settles
ExistsReturn(c, outcome) ==
    /\ Running
    /\ calls[c].pc = "existsCheck"
    /\ LET rec == calls[c]
           seen == Settled(calls[c], outcome)
           caught == IF outcome = Ok THEN AlreadyExistsError(Target(rec)) ELSE outcome
       IN  IF Rethrown(caught, NotFoundText)
             THEN SetCall(c, Finished(seen, Failure(rec, caught)))
             ELSE SetCall(c, Goto(seen, "remoteOp"))
    /\ UNCHANGED <<sessions, now, nSandboxes, nCalls, delivered, server, env, swept, passDone>>

\* a faulty download_file: the session is looked up before the overwrite check
AccessReturnTouches(c, outcome, generated) ==
    /\ Running
    /\ calls[c].pc = "access"
    /\ LET rec == calls[c]
           seen == Settled(calls[c], outcome)
           caught == IF outcome = Ok THEN AlreadyExistsError(NormalizedPath(rec)) ELSE outcome
       IN  IF Rethrown(caught, ENOENTText)
             THEN /\ SetCall(c, Finished(seen, Failure(rec, caught)))
                  /\ sessions' = GetSandboxMap(sessions, rec, now)
             ELSE CallGetSandbox(c, seen, generated)
    /\ UNCHANGED <<now, nSandboxes, nCalls, delivered, server, env, swept, passDone>>

\* download_file with overwrite false: fs.access settles
AccessReturn(c, outcome, generated) ==
    /\ Running
    /\ calls[c].pc = "access"
    /\ LET rec == calls[c]
           seen == Settled(calls[c], outcome)
           caught == IF outcome = Ok THEN AlreadyExistsError(NormalizedPath(rec)) ELSE outcome
       IN  IF Rethrown(caught, ENOENTText)
             THEN SetCall(c, Finished(seen, Failure(rec, caught))) /\ UNCHANGED sessions
             ELSE CallGetSandbox(c, seen, generated)
    /\ UNCHANGED <<now, nSandboxes, nCalls, delivered, server, env, swept, passDone>>

\* the remote operation of the tool settles
RemoteReturn(c, outcome) ==
    /\ Running
    /\ calls[c].pc = "remoteOp"
    /\ outcome \in RemoteOutcomes(calls[c])
    /\ LET rec == calls[c] IN
       IF outcome # Ok
         THEN SetCall(c, Finished(rec, Failure(rec, WrapCommandError(rec.impl, outcome))))
       ELSE IF rec.tool = "download_file"
         THEN SetCall(c, Goto(rec, "mkdir"))
       ELSE SetCall(c, Succeeded(rec))
    /\ UNCHANGED <<sessions, now, nSandboxes, nCalls, delivered, server, env, swept, passDone>>

\* a path that names a directory whatever the file system holds
IsDirectoryPath(p) == p[Len(p)] = Sep \/ p = <<".">>

\* download_file: fs.mkdir, then fs.writeFile settle (writing to a directory fails)
LocalWriteReturn(c, ok) ==
    /\ Running
    /\ calls[c].pc \in {"mkdir", "localWrite"}
    /\ (ok /\ calls[c].pc = "localWrite") => ~IsDirectoryPath(NormalizedPath(calls[c]))
    /\ LET rec == calls[c] IN
       IF ~ok THEN SetCall(c, Finished(rec, Failure(rec, LocalWriteFailed)))
       ELSE IF rec.pc = "mkdir" THEN SetCall(c, Goto(rec, "localWrite"))
       ELSE SetCall(c, Succeeded(rec))
    /\ UNCHANGED <<sessions, now, nSandboxes, nCalls, delivered, server, env, swept, passDone>>

\* the response of a finished call goes out on the transport; a success names
\* the session id and was served by the sandbox the call used
Respond(c) ==
    /\ server # "exited"
    /\ calls[c].pc = "done"
    /\ calls' = [calls EXCEPT ![c] = NoCall]
    /\ delivered' = delivered \cup
          (IF calls[c].resp.kind = "ok"
             THEN {[session_id |-> calls[c].sessionId, sandbox |-> calls[c].sandbox]}
             ELSE {})
    /\ UNCHANGED <<sessions, now, nSandboxes, nCalls, server, env, swept, passDone>>

\* the cleanup timer fires: one pass over the session map (passDone: a pass has
\* completed at the current clock value)
Sweep ==
    /\ Running
    /\ now >= SWEEP_INTERVAL /\ now % SWEEP_INTERVAL = 0
    /\ sessions' = SweepPass(sessions, now)
    /\ swept' = swept \cup {sessions[i].sandbox : i \in {j \in 1..Len(sessions) :
                                  ~MapHas(sessions', sessions[j].id)}}
    /\ passDone' = TRUE
    /\ UNCHANGED <<now, nSandboxes, calls, nCalls, delivered, server, env>>

\* time passes
Tick ==
    /\ Running
    /\ now < MaxTicks * ClockStep
    /\ now' = now + ClockStep
    /\ passDone' = FALSE
    /\ UNCHANGED <<sessions, nSandboxes, calls, nCalls, delivered, server, env, swept>>

\* run(): the transport is connected
Connect ==
    /\ server = "idle"
    /\ server' = "connected"
    /\ UNCHANGED <<sessions, now, nSandboxes, calls, nCalls, delivered, env, swept, passDone>>

\* new E2BServer(): the constructor registers the request handlers, the
\* cleanup timer and the SIGINT handler
Construct ==
    /\ server = "new"
    /\ server' = "idle"
    /\ UNCHANGED <<sessions, now, nSandboxes, calls, nCalls, delivered, env, swept, passDone>>

\* a faulty SIGINT handler: it closes the server without clearing the map
InterruptKeepsSessions ==
    /\ server \in {"connected", "closing"} /\ ~Responding
    /\ server' = "closing"
    /\ UNCHANGED <<sessions, now, nSandboxes, calls, nCalls, delivered, env, swept, passDone>>

\* SIGINT: the map is cleared and the close of the server awaited.  run()
\* follows the constructor in the same turn of the event loop, so the signal
\* is handled only once the transport is connected; it may come again while
\* the close is awaited
Interrupt ==
    /\ server \in {"connected", "closing"} /\ ~Responding
    /\ sessions' = <<>>
    /\ server' = "closing"
    /\ UNCHANGED <<now, nSandboxes, calls, nCalls, delivered, env, swept, passDone>>

\* the close settles: process.exit(0); nothing of the process is left
Exit ==
    /\ server = "closing"
    /\ server' = "exited"
    /\ calls' = [c \in Calls |-> NoCall]
    /\ swept' = {}
    /\ delivered' = {}
    /\ nSandboxes' = 0
    /\ nCalls' = 0
    /\ UNCHANGED <<sessions, now, env, passDone>>

(***************************************************************************)
(* The requests and environments explored.                                 *)
(***************************************************************************)
PathA == <<"/", "a">>
PathATrailing == <<"/", "a", "/">>
FileInA == <<"/", "a", "/", "f">>
FileInSibling == <<"/", "a", "-", "x", "/", "f">>
FileEscaping == <<"/", "a", "/", ".", ".", "/", "b", "/", "f">>
FileNamedNotFound == <<"/", "a", "/">> \o NotFoundText
FileNamedENOENT == <<"/", "a", "/">> \o ENOENTText
CurrentDir == <<".">>
RemoteFile == <<"r">>

Request(impl, name, args) == [impl |-> impl, name |-> name, args |-> args]

RunCode(impl, sid) ==
    Request(impl, "run_code", [NoArgs EXCEPT !.code = Str("1+1"), !.session_id = sid])
ReadFile(impl, sid) ==
    Request(impl, "read_file", [NoArgs EXCEPT !.path = Str(RemoteFile), !.session_id = sid])
WriteFile(impl, content) ==
    Request(impl, "write_file", [NoArgs EXCEPT !.path = Str(RemoteFile), !.content = content])
ExecuteCommand(impl, command, background) ==
    Request(impl, "execute_command",
            [NoArgs EXCEPT !.command = command, !.background = background])
UploadFile(impl, local_path, sandbox_path, overwrite, sid) ==
    Request(impl, "upload_file",
            [NoArgs EXCEPT !.local_path = local_path, !.sandbox_path = sandbox_path,
                           !.overwrite = overwrite, !.session_id = sid])
DownloadFile(impl, local_path, overwrite, sid) ==
    Request(impl, "download_file",
            [NoArgs EXCEPT !.sandbox_path = Str(RemoteFile), !.local_path = local_path,
                           !.overwrite = overwrite, !.session_id = sid])

\* the session ids the map, a call or a response knows
KnownIds ==
    {sessions[i].id : i \in 1..Len(sessions)}
    \cup {calls[c].newSessionId : c \in Calls}
    \cup {d.session_id : d \in delivered}
    \cup {calls[c].args.session_id.v : c \in {d \in Calls : IsStr(calls[d].args.session_id)}}

Init ==
    /\ sessions = <<>>
    /\ now = 0
    /\ nSandboxes = 0
    /\ calls = [c \in Calls |-> NoCall]
    /\ nCalls = 0
    /\ delivered = {}
    /\ server = "idle"
    /\ env = [upload |-> Undef, download |-> Undef]
    /\ swept = {}
    /\ passDone = FALSE

(***************************************************************************)
(* Spec: concurrent calls of the session-only tools, the clock and the     *)
(* cleanup timer.                                                          *)
(***************************************************************************)
SessionRequests == {RunCode("index", Undef), ReadFile("handler", Str("sess_a"))}

Next ==
    \/ Connect
    \/ \E c \in Calls, req \in SessionRequests :
          \E g \in Generated(req.args.session_id, KnownIds) : Start(c, req, g)
    \/ \E c \in Calls, ok \in BOOLEAN : CreateReturn(c, ok)
    \/ \E c \in Calls : RemoteReturn(c, Ok)
    \/ \E c \in Calls : Respond(c)
    \/ Sweep
    \/ Tick

Spec == Init /\ [][Next]_vars

(***************************************************************************)
(* SpecTools: calls of every tool through either pipeline, one at a time,  *)
(* with every outcome of the external operations, under each environment.  *)
(***************************************************************************)
SessionIdArgs == {Undef, Str("sess_a")}

ToolRequests ==
    {RunCode(impl, sid) : impl \in {"index", "handler"}, sid \in SessionIdArgs \cup {Num}}
    \cup {ReadFile(impl, sid) : impl \in {"index", "handler"}, sid \in {Undef, Null}}
    \cup {WriteFile(impl, content) : impl \in {"index", "handler"},
                                     content \in {Str("x"), Undef}}
    \cup {ExecuteCommand(impl, command, background) :
             impl \in {"index", "handler", "handler_v1"},
             command \in {Str("ls"), Num}, background \in {Undef, Bool(TRUE)}}
    \cup {UploadFile(impl, Str(local_path), sandbox_path, overwrite, sid) :
             impl \in {"index", "handler"},
             local_path \in {FileInA, FileInSibling, FileEscaping, FileNamedNotFound},
             sandbox_path \in {Undef}, overwrite \in {Undef, Bool(FALSE)},
             sid \in SessionIdArgs}
    \cup {UploadFile(impl, Str(FileInA), Str(RemoteFile), Num, Undef) :
             impl \in {"index", "handler"}}
    \cup {DownloadFile("handler", Str(local_path), overwrite, sid) :
             local_path \in {FileInA, FileInSibling, FileNamedENOENT, CurrentDir},
             overwrite \in {Undef, Bool(TRUE)}, sid \in SessionIdArgs}
    \cup {DownloadFile("handler", Undef, Undef, Undef),
          DownloadFile("index", Str(FileInA), Undef, Undef),
          Request("index", "no_such_tool", NoArgs)}

AllowLists == {Undef, Str(<<>>), Str(PathA), Str(PathATrailing),
               Str(<<"/", "b", ",">> \o PathA)}

InitTools ==
    /\ sessions = <<>>
    /\ now = 0
    /\ nSandboxes = 0
    /\ calls = [c \in Calls |-> NoCall]
    /\ nCalls = 0
    /\ delivered = {}
    /\ server = "idle"
    /\ env \in {[upload |-> a, download |-> a] : a \in AllowLists}
    /\ swept = {}
    /\ passDone = FALSE

NextTools ==
    \/ Connect
    \/ \E req \in ToolRequests :
          \E g \in Generated(req.args.session_id, KnownIds) : Start(1, req, g)
    \/ \E ok \in BOOLEAN : CreateReturn(1, ok)
    \/ \E ok \in BOOLEAN : \E g \in Generated(calls[1].args.session_id, KnownIds) :
          LocalReadReturn(1, ok, g)
    \/ \E outcome \in ReadOutcomes : ExistsReturn(1, outcome)
    \/ \E outcome \in AccessOutcomes :
          \E g \in Generated(calls[1].args.session_id, KnownIds) : AccessReturn(1, outcome, g)
    \/ \E outcome \in {Ok, RemoteFailed, CommandExitError} : RemoteReturn(1, outcome)
    \/ \E ok \in BOOLEAN : LocalWriteReturn(1, ok)
    \/ Respond(1)

SpecTools == InitTools /\ [][NextTools]_vars

(***************************************************************************)
(* SpecUpload: upload_file calls with every way of writing sandbox_path,   *)
(* from an allowed directory.                                              *)
(***************************************************************************)
SandboxPathArgs == {Undef, Null, Str(<<>>), Str(NullText), Str(QuotesText),
                    Str(RemoteFile), Str(<<"d", "/">>)}

UploadRequests ==
    {UploadFile(impl, Str(local_path), sandbox_path, overwrite, Undef) :
        impl \in {"index", "handler"}, local_path \in {FileInA, FileNamedNotFound},
        sandbox_path \in SandboxPathArgs, overwrite \in {Undef, Bool(FALSE)}}

InitUpload ==
    /\ sessions = <<>>
    /\ now = 0
    /\ nSandboxes = 0
    /\ calls = [c \in Calls |-> NoCall]
    /\ nCalls = 0
    /\ delivered = {}
    /\ server = "idle"
    /\ env = [upload |-> Str(PathA), download |-> Undef]
    /\ swept = {}
    /\ passDone = FALSE

NextUpload ==
    \/ Connect
    \/ \E req \in UploadRequests :
          \E g \in Generated(req.args.session_id, KnownIds) : Start(1, req, g)
    \/ \E ok \in BOOLEAN : \E g \in Generated(calls[1].args.session_id, KnownIds) :
          LocalReadReturn(1, ok, g)
    \/ CreateReturn(1, TRUE)
    \/ \E outcome \in ReadOutcomes : ExistsReturn(1, outcome)
    \/ \E outcome \in {Ok, RemoteFailed} : RemoteReturn(1, outcome)
    \/ Respond(1)

SpecUpload == InitUpload /\ [][NextUpload]_vars

(***************************************************************************)
(* SpecLong: foreground commands, which may run for up to timeoutMs (by    *)
(* default 6000000 ms in the first ExecuteCommandTool, and whatever the    *)
(* caller passes), while the clock advances and the cleanup timer fires.   *)
(***************************************************************************)
CommandRequests ==
    {Request(impl, "execute_command",
             [NoArgs EXCEPT !.command = Str("ls"), !.session_id = sid]) :
        impl \in {"index", "handler", "handler_v1"}, sid \in SessionIdArgs}

NextLong ==
    \/ Connect
    \/ \E req \in CommandRequests :
          \E g \in Generated(req.args.session_id, KnownIds) : Start(1, req, g)
    \/ \E ok \in BOOLEAN : CreateReturn(1, ok)
    \/ \E outcome \in {Ok, RemoteFailed, CommandExitError} : RemoteReturn(1, outcome)
    \/ Respond(1)
    \/ Sweep
    \/ Tick

SpecLong == Init /\ [][NextLong]_vars

(***************************************************************************)
(* SpecReject: uploads and downloads that name an existing session, some   *)
(* of them rejected before any remote operation, while the clock advances. *)
(***************************************************************************)
TransferRequests ==
    {RunCode("index", Str("sess_a"))}
    \cup {UploadFile(impl, Str(local_path), Undef, Undef, Str("sess_a")) :
             impl \in {"index", "handler"}, local_path \in {FileInA, FileInSibling}}
    \cup {DownloadFile("handler", Str(local_path), Undef, Str("sess_a")) :
             local_path \in {FileInA, FileInSibling}}

InitReject ==
    /\ sessions = <<>>
    /\ now = 0
    /\ nSandboxes = 0
    /\ calls = [c \in Calls |-> NoCall]
    /\ nCalls = 0
    /\ delivered = {}
    /\ server = "idle"
    /\ env \in {[upload |-> a, download |-> a] : a \in {Undef, Str(PathA)}}
    /\ swept = {}
    /\ passDone = FALSE

NextReject ==
    \/ Connect
    \/ \E req \in TransferRequests :
          \E g \in Generated(req.args.session_id, KnownIds) : Start(1, req, g)
    \/ \E ok \in BOOLEAN : \E g \in Generated(calls[1].args.session_id, KnownIds) :
          LocalReadReturn(1, ok, g)
    \/ \E outcome \in AccessOutcomes :
          \E g \in Generated(calls[1].args.session_id, KnownIds) : AccessReturn(1, outcome, g)
    \/ CreateReturn(1, TRUE)
    \/ \E outcome \in {Ok, RemoteFailed} : RemoteReturn(1, outcome)
    \/ \E ok \in BOOLEAN : LocalWriteReturn(1, ok)
    \/ Respond(1)
    \/ Tick

SpecReject == InitReject /\ [][NextReject]_vars

(***************************************************************************)
(* SpecLife: the life of the process, from the constructor to the exit,    *)
(* with calls in flight.                                                   *)
(***************************************************************************)
InitLife ==
    /\ sessions = <<>>
    /\ now = 0
    /\ nSandboxes = 0
    /\ calls = [c \in Calls |-> NoCall]
    /\ nCalls = 0
    /\ delivered = {}
    /\ server = "new"
    /\ env = [upload |-> Undef, download |-> Undef]
    /\ swept = {}
    /\ passDone = FALSE

NextLife ==
    \/ Construct
    \/ Connect
    \/ \E c \in Calls, req \in SessionRequests :
          \E g \in Generated(req.args.session_id, KnownIds) : Start(c, req, g)
    \/ \E c \in Calls, ok \in BOOLEAN : CreateReturn(c, ok)
    \/ \E c \in Calls : RemoteReturn(c, Ok)
    \/ \E c \in Calls : Respond(c)
    \/ Interrupt
    \/ Exit

SpecLife == InitLife /\ [][NextLife]_vars

(***************************************************************************)
(* Properties of the session store (checked under Spec).                   *)
(***************************************************************************)
\* call c arrives in this step and reaches getSandbox with the session id `id`
ResolvesWith(c, id) ==
    /\ calls[c].pc = "idle" /\ calls'[c].pc \notin {"idle", "done"}
    /\ calls'[c].args.session_id = Str(id)

\* call c left getSandbox with the sandbox of the delivered response d, and
\* no Sandbox.create was invoked for it
Reuses(c, d) ==
    /\ calls'[c].sandbox = d.sandbox
    /\ calls'[c].pc # "create"
    /\ \A i \in 1..Len(calls'[c].effects) : calls'[c].effects[i] # "Sandbox.create"
    /\ nSandboxes' = nSandboxes

\* the map holds the sandbox of the delivered response d under its session id
StillHeld(d) ==
    /\ MapHas(sessions, d.session_id)
    /\ MapGet(sessions, d.session_id).sandbox = d.sandbox

\* C1 as stated: a call that starts after a response was delivered and supplies
\* the session id of that response, no sweep having evicted that session, uses
\* the sandbox that served the response, and no sandbox is created for it.
C1_SessionReuse_AsStated ==
    [][\A c \in Calls : \A d \in delivered :
          (ResolvesWith(c, d.session_id) /\ d.sandbox \notin swept) => Reuses(c, d)]_vars

\* C1, amended: a call that starts after a response was delivered and supplies
\* the session id of that response uses the sandbox that served the response
\* and creates none, provided the map still holds that sandbox under the id:
\* no sweep evicted it and no other call stored a new sandbox under the id.
C1_SessionReuse ==
    [][\A c \in Calls : \A d \in delivered :
          (ResolvesWith(c, d.session_id) /\ StillHeld(d)) => Reuses(c, d)]_vars

\* the second of two calls runs on the sandbox of the response delivered to
\* the first, found by its id; both used the first slot, so they did not overlap
C1_Reused ==
    \E d \in delivered :
        /\ nCalls = 2 /\ nSandboxes = 1
        /\ \A c \in Calls : c # 1 => calls[c].pc = "idle"
        /\ calls[1].pc = "remoteOp"
        /\ calls[1].args.session_id = Str(d.session_id)
        /\ calls[1].sandbox = d.sandbox
        /\ calls[1].effects = <<"files.read">>

\* C2: once a sweep pass has completed, and until time passes, the session map
\* holds no session idle for longer than the threshold of 30 minutes.
C2_NoExpiredAfterSweep ==
    passDone => \A i \in 1..Len(sessions) :
                    ~(now - sessions[i].lastAccessed > 30 * 60 * 1000)

\* a pass has evicted two sessions, one after the other (sessions idle for
\* longer than the threshold at the same pass)
C2_TwoEvicted == passDone /\ Cardinality(swept) >= 2

\* a step of the cleanup timer
SweepStep == passDone' /\ UNCHANGED <<calls, now, server>>

\* C3: a sweep pass keeps every session idle for at most the threshold, with its
\* sandbox and lastAccessed as they were, and every entry of the map after the
\* pass is an entry of the map before it.
C3_SweepKeepsLive ==
    [][SweepStep =>
         /\ \A i \in 1..Len(sessions) :
               now - sessions[i].lastAccessed <= 30 * 60 * 1000
                  => \E j \in 1..Len(sessions') : sessions'[j] = sessions[i]
         /\ \A j \in 1..Len(sessions') :
               \E i \in 1..Len(sessions) : sessions[i] = sessions'[j]]_vars

\* a pass has evicted a session and kept one idle for exactly the threshold
C3_KeptAtThreshold ==
    /\ passDone /\ swept # {}
    /\ \E i \in 1..Len(sessions) : now - sessions[i].lastAccessed = 30 * 60 * 1000

(***************************************************************************)
(* Properties of the tool pipelines (checked under SpecTools).             *)
(***************************************************************************)
\* call c arrives in this step
Arrives(c) == calls[c].pc = "idle" /\ calls'[c].pc # "idle"

\* the operation op was invoked for the call
Invoked(rec, op) == \E i \in 1..Len(rec.effects) : rec.effects[i] = op

\* the fields each tool requires, all of them strings
RequiredFields(name) ==
    CASE name = "run_code" -> {"code"}
      [] name = "read_file" -> {"path"}
      [] name = "write_file" -> {"path", "content"}
      [] name = "execute_command" -> {"command"}
      [] name = "upload_file" -> {"local_path"}
      [] name = "download_file" -> {"sandbox_path", "local_path"}
      [] OTHER -> {}

\* arguments the declared schema of the tool rejects: a required string is
\* missing or no string, session_id is given and no string, or overwrite is
\* given and no boolean
ArgsInvalid(name, args) ==
    \/ \E f \in RequiredFields(name) : args[f].t # "string"
    \/ args.session_id.t \notin {"string", "undefined"}
    \/ /\ name \in {"upload_file", "download_file"}
       /\ args.overwrite.t \notin {"boolean", "undefined"}

\* C4: a call of a recognised tool whose arguments fail schema validation ends
\* at once with isError true and code InvalidParams; nothing was awaited for it
\* (no session resolution, no remote or local operation), no sandbox was
\* created and the session map is unchanged.
C4_InvalidArguments ==
    [][\A c \in Calls :
          (Arrives(c) /\ calls'[c].tool # "unknown"
             /\ ArgsInvalid(calls'[c].name, calls'[c].args))
          => /\ calls'[c].pc = "done"
             /\ calls'[c].resp.isError
             /\ calls'[c].resp.code = "InvalidParams"
             /\ calls'[c].effects = <<>>
             /\ calls'[c].sandbox = 0 /\ calls'[c].sessionId = ""
             /\ UNCHANGED <<sessions, nSandboxes>>]_vars

\* a call with invalid arguments answered by ToolHandler.handle
C4_Rejected ==
    \E c \in Calls :
        /\ calls[c].pc = "done" /\ calls[c].impl = "handler"
        /\ ArgsInvalid(calls[c].name, calls[c].args)
        /\ calls[c].resp.code = "InvalidParams"

\* C5 as stated: every call that fails answers with isError true.
C5_FailureIsError_AsStated ==
    \A c \in Calls :
        (calls[c].pc = "done" /\ calls[c].resp.kind # "ok") => calls[c].resp.isError

\* the tool body of the call threw
BodyThrew(rec) == rec.pc = "done" /\ rec.resp.kind \notin {"ok", "validation", "unknown tool"}

\* the response names the session id: as its session_id, or within the
\* arguments it repeats
Echoes(rec, id) ==
    \/ rec.resp.session_id = Str(id)
    \/ rec.resp.params /\ rec.args.session_id = Str(id)

\* C6 as stated: when a tool body throws, the response carries the code
\* InternalError and names the session id of the call whenever the id is known:
\* the one the call resolved or created, else the one the caller supplied.
C6_ErrorEchoesSession_AsStated ==
    \A c \in Calls :
        BodyThrew(calls[c]) =>
            /\ calls[c].resp.code = "InternalError"
            /\ calls[c].sessionId # "" => Echoes(calls[c], calls[c].sessionId)
            /\ (calls[c].sessionId = "" /\ TruthyId(calls[c].args.session_id))
                  => Echoes(calls[c], calls[c].args.session_id.v)

\* the tools the list-tools handler of index.ts registers
ListedTools == {"run_code", "read_file", "write_file", "execute_command", "upload_file"}

\* C7: a request to the call-tool handler of index.ts whose name is no
\* registered tool ends at once with isError true and code MethodNotFound (not
\* InvalidParams, whatever its arguments); nothing was awaited for it, no
\* sandbox was created and the session map is unchanged.
C7_UnknownTool ==
    [][\A c \in Calls :
          (Arrives(c) /\ calls'[c].impl = "index" /\ calls'[c].name \notin ListedTools)
          => /\ calls'[c].pc = "done"
             /\ calls'[c].resp.isError
             /\ calls'[c].resp.code = "MethodNotFound"
             /\ calls'[c].effects = <<>>
             /\ calls'[c].sandbox = 0 /\ calls'[c].sessionId = ""
             /\ UNCHANGED <<sessions, nSandboxes>>]_vars

\* a request for an unregistered tool, with arguments no schema accepts, answered
C7_Answered ==
    \E c \in Calls :
        /\ calls[c].pc = "done" /\ calls[c].impl = "index"
        /\ calls[c].name \notin ListedTools /\ calls[c].args = NoArgs
        /\ calls[c].resp.code = "MethodNotFound"

\* the directories a path descends through, "." and ".." resolved
Segments(p) == NormalizeSegs(Split(p, Sep), 1, Len(p) = 0 \/ p[1] # Sep, <<>>)

IsAbsolute(p) == Len(p) > 0 /\ p[1] = Sep

\* the path is the directory dir or lies below it
LiesUnder(p, dir) ==
    /\ IsAbsolute(p) = IsAbsolute(dir)
    /\ Len(Segments(dir)) <= Len(Segments(p))
    /\ SubSeq(Segments(p), 1, Len(Segments(dir))) = Segments(dir)

UnderSomePrefix(p, value) ==
    \E i \in 1..Len(AllowedPaths(value)) : LiesUnder(p, AllowedPaths(value)[i])

AccessDenied(rec) == rec.pc = "done" /\ rec.resp.kind \in {"AccessDenied", "NoAllowedPaths"}

\* C8 as stated: an upload_file call whose local_path lies outside every allowed
\* upload prefix fails with an access-denied error and the local file is never
\* read; a call whose local_path lies under an allowed prefix passes the check.
C8_UploadAllowList_AsStated ==
    \A c \in Calls :
        (calls[c].tool = "upload_file" /\ ~ArgsInvalid("upload_file", calls[c].args))
        => IF UnderSomePrefix(calls[c].args.local_path.v, env.upload)
             THEN ~AccessDenied(calls[c])
             ELSE AccessDenied(calls[c]) /\ ~Invoked(calls[c], "fs.readFile")

\* the variable is unset, or names no directory
NoDirectory(value) ==
    value.t = "undefined" \/ \A i \in 1..Len(AllowedPaths(value)) : AllowedPaths(value)[i] = <<>>

AllowListOf(tool) == IF tool = "upload_file" THEN env.upload ELSE env.download

\* C9 as stated: while the allow-list of the tool is absent or names no
\* directory, every upload_file or download_file call is rejected with an error,
\* and no local file is read or written and no remote file is read or written.
C9_FailClosed_AsStated ==
    \A c \in Calls :
        (/\ calls[c].tool \in {"upload_file", "download_file"}
         /\ ~ArgsInvalid(calls[c].tool, calls[c].args)
         /\ NoDirectory(AllowListOf(calls[c].tool)))
        => /\ calls[c].pc = "done" => calls[c].resp.isError
           /\ \A op \in {"fs.readFile", "fs.writeFile", "files.read", "files.write"} :
                 ~Invoked(calls[c], op)

\* the remote read of the target settled without an error
TargetExists(rec) ==
    \E i \in 1..(Len(rec.effects) - 1) :
        rec.effects[i] = "files.read" /\ rec.effects[i + 1] = "ok"

\* C10 as stated: an upload_file call with overwrite false whose target exists
\* in the sandbox fails with an already-exists error and the remote write is
\* never invoked; with overwrite true or unset no existence check is made, and
\* a call that succeeds has written.
C10_UploadOverwrite_AsStated ==
    \A c \in Calls :
        (calls[c].tool = "upload_file" /\ ~ArgsInvalid("upload_file", calls[c].args))
        => IF calls[c].args.overwrite = Bool(FALSE)
             THEN TargetExists(calls[c])
                     => /\ ~Invoked(calls[c], "files.write")
                        /\ calls[c].pc = "done" /\ calls[c].resp.kind = "AlreadyExists"
             ELSE /\ ~Invoked(calls[c], "files.read")
                  /\ (calls[c].pc = "done" /\ calls[c].resp.kind = "ok")
                        => Invoked(calls[c], "files.write")

\* fs.access of the local path settled without an error: the file exists
LocalFileExists(rec) ==
    \E i \in 1..(Len(rec.effects) - 1) :
        rec.effects[i] = "fs.access" /\ rec.effects[i + 1] = "ok"

\* C11 as stated: a download_file call with overwrite false or unset whose
\* allowed local path exists fails with an already-exists error, and neither
\* fs.mkdir nor fs.writeFile is invoked; with overwrite true no existence check
\* is made.
C11_DownloadOverwrite_AsStated ==
    \A c \in Calls :
        (calls[c].tool = "download_file" /\ ~ArgsInvalid("download_file", calls[c].args))
        => IF calls[c].args.overwrite = Bool(TRUE)
             THEN ~Invoked(calls[c], "fs.access")
             ELSE LocalFileExists(calls[c])
                     => /\ ~Invoked(calls[c], "fs.mkdir")
                        /\ ~Invoked(calls[c], "fs.writeFile")
                        /\ calls[c].pc = "done" /\ calls[c].resp.kind = "AlreadyExists"

\* C12 as stated: an execute_command call with background true that succeeds
\* awaited only the start of the process and answers with the status "Command
\* started in background", a pid and the session id; with background false or
\* unset it awaited the end of the process and answers with stdout, stderr and
\* the session id.
C12_Background_AsStated ==
    \A c \in Calls :
        (calls[c].name = "execute_command" /\ calls[c].pc = "done"
           /\ calls[c].resp.kind = "ok")
        => IF calls[c].args.background = Bool(TRUE)
             THEN /\ Invoked(calls[c], "commands.run:background")
                  /\ ~Invoked(calls[c], "commands.run")
                  /\ calls[c].resp.status = "Command started in background"
                  /\ calls[c].resp.body = {"status", "pid", "session_id"}
                  /\ calls[c].resp.session_id = Str(calls[c].sessionId)
             ELSE /\ Invoked(calls[c], "commands.run")
                  /\ calls[c].resp.body = {"stdout", "stderr", "session_id"}
                  /\ calls[c].resp.session_id = Str(calls[c].sessionId)

\* C13 as stated: an execute_command call not run in the background whose
\* commands.run failed answers either with the failure COMMAND_FAILED carrying
\* what the exited process reported, or, when the runner failed otherwise, with
\* that failure unchanged; a non-zero exit never surfaces unwrapped.
C13_CommandFailed_AsStated ==
    \A c \in Calls :
        (/\ calls[c].name = "execute_command" /\ calls[c].pc = "done"
         /\ calls[c].args.background # Bool(TRUE)
         /\ Invoked(calls[c], "commands.run") /\ calls[c].resp.kind # "ok")
        => \/ /\ calls[c].resp.kind = "COMMAND_FAILED"
              /\ calls[c].resp.message = CommandExitError.message
           \/ /\ calls[c].resp.kind = RemoteFailed.kind
              /\ calls[c].resp.message = RemoteFailed.message

SixTools == {"run_code", "read_file", "write_file", "upload_file", "download_file",
             "execute_command"}

\* C14 as stated: the list-tools handler of index.ts advertises exactly the six
\* tools, and a call-tool request to index.ts naming any of them is answered by
\* that tool's pipeline, never with MethodNotFound.
C14_SixTools_AsStated ==
    /\ \A c \in Calls :
          (calls[c].impl = "index" /\ calls[c].name \in SixTools /\ calls[c].pc = "done")
          => calls[c].tool = calls[c].name /\ calls[c].resp.code # "MethodNotFound"
    /\ IndexTools = SixTools

\* no two entries of the map have the same session id
UniqueIds == \A i \in 1..Len(sessions) : \A j \in 1..Len(sessions) :
                 sessions[i].id = sessions[j].id => i = j

\* C15: the session map holds at most one entry per session id in every state,
\* and across every step the lastAccessed of an id present before and after
\* the step does not decrease.
C15_OneEntryMonotone ==
    /\ []UniqueIds
    /\ [][\A i \in 1..Len(sessions) : \A j \in 1..Len(sessions') :
             sessions'[j].id = sessions[i].id
                => sessions'[j].lastAccessed >= sessions[i].lastAccessed]_vars

\* two calls resolved the same id concurrently after time had passed: two
\* sandboxes were created, the map holds one entry, with the later sandbox
C15_Replaced ==
    /\ nSandboxes = 2 /\ swept = {} /\ Len(sessions) = 1
    /\ sessions[1].sandbox = 2 /\ sessions[1].lastAccessed > 0

\* the number of times the operation was invoked for the call
TimesInvoked(rec, op) == Cardinality({i \in 1..Len(rec.effects) : rec.effects[i] = op})

\* C16: a call that finds no session awaits Sandbox.create with the map as it
\* was; when the creation fails the call ends with that failure unchanged,
\* having invoked Sandbox.create exactly once, and the map and the sandboxes
\* created stay as they were.
C16_CreateFailure ==
    [][\A c \in Calls :
          /\ (calls[c].pc # "create" /\ calls'[c].pc = "create")
                => /\ sessions' = sessions
                   /\ TimesInvoked(calls'[c], "Sandbox.create") = 1
          /\ (calls[c].pc = "create" /\ calls'[c].pc = "done")
                => /\ sessions' = sessions /\ nSandboxes' = nSandboxes
                   /\ calls'[c].resp.kind = CreateFailed.kind
                   /\ calls'[c].resp.message = CreateFailed.message
                   /\ TimesInvoked(calls'[c], "Sandbox.create") = 1
                   /\ calls'[c].sandbox = 0 /\ calls'[c].sessionId = ""]_vars

\* a call that supplied an id not in the map ended with the creation failure
C16_Failed ==
    \E c \in Calls :
        /\ calls[c].pc = "done" /\ calls[c].resp.kind = CreateFailed.kind
        /\ TruthyId(calls[c].args.session_id)
        /\ ~MapHas(sessions, calls[c].args.session_id.v)

Held(m) == {m[i].sandbox : i \in 1..Len(m)}

\* C18: when a resolve that missed stores its sandbox under an id that another
\* resolve stored in the meantime, the sandbox is a second, separate one, the
\* map holds for that id only the one stored last, the one stored first can no
\* longer be reached through the map, and its caller holds the same id.
C18_RaceOnUnknownId ==
    [][\A c \in Calls :
          LET id == calls[c].newSessionId
              first == MapGet(sessions, id).sandbox
          IN  (/\ calls[c].pc = "create" /\ calls'[c].sandbox # 0
               /\ MapHas(sessions, id))
              => /\ nSandboxes' = nSandboxes + 1
                 /\ calls'[c].sandbox # first
                 /\ calls'[c].sessionId = id
                 /\ Cardinality({i \in 1..Len(sessions') : sessions'[i].id = id}) = 1
                 /\ MapGet(sessions', id).sandbox = calls'[c].sandbox
                 /\ first \notin Held(sessions')
                 /\ \A d \in Calls :
                       calls'[d].sandbox = first => calls'[d].sessionId = id]_vars

\* two calls that supplied the same unknown id overlapped: each created a
\* sandbox and got the id back, and the map holds the later sandbox only
C18_Leaked ==
    /\ now = 0 /\ swept = {}
    /\ \E c, d \in Calls :
          /\ calls[c].args.session_id = Str("sess_a")
          /\ calls[d].args.session_id = Str("sess_a")
          /\ calls[c].sessionId = "sess_a" /\ calls[d].sessionId = "sess_a"
          /\ Invoked(calls[c], "Sandbox.create") /\ Invoked(calls[d], "Sandbox.create")
          /\ calls[c].sandbox = 1 /\ calls[d].sandbox = 2
          /\ nSandboxes = 2
          /\ Held(sessions) = {2}

C20_AllowListCheck_AsStated ==
    \A c \in Calls :
        LET tool == calls[c].tool
            p == calls[c].args.local_path.v
            list == AllowedPaths(AllowListOf(tool))
        IN  (/\ tool \in {"upload_file", "download_file"}
             /\ ~ArgsInvalid(tool, calls[c].args))
            => /\ ~AccessDenied(calls[c])
                    <=> \E i \in 1..Len(list) :
                           \/ Normalize(p) = Normalize(list[i])
                           \/ StartsWith(Normalize(p), Normalize(list[i]) \o <<Sep>>)
               /\ (\E i \in 1..Len(list) : LiesUnder(p, list[i]))
                     => ~AccessDenied(calls[c])

\* the existence read of the call settled with this outcome
ReadSettled(rec, kind) ==
    \E i \in 1..(Len(rec.effects) - 1) :
        rec.effects[i] = "files.read" /\ rec.effects[i + 1] = kind

\* C21: for upload_file with overwrite false, an existence read that fails
\* with an Error saying "not found" is followed by the remote write, and the
\* call succeeds when the write does; a read that fails in any other way ends
\* the call with that failure and the remote write is never invoked.
C21_ExistenceReadFailure ==
    \A c \in Calls :
        (calls[c].tool = "upload_file" /\ calls[c].args.overwrite = Bool(FALSE))
        => /\ ReadSettled(calls[c], RemoteNotFound.kind)
                => /\ Invoked(calls[c], "files.write")
                   /\ calls[c].pc = "done"
                         => /\ calls[c].resp.kind \in {Ok.kind, RemoteFailed.kind}
                            /\ calls[c].resp.kind = Ok.kind => ~calls[c].resp.isError
           /\ \A e \in ReadOutcomes \ {Ok, RemoteNotFound} :
                 ReadSettled(calls[c], e.kind)
                    => /\ ~Invoked(calls[c], "files.write")
                       /\ calls[c].pc = "done"
                       /\ calls[c].resp.kind = e.kind
                       /\ calls[c].resp.message = e.message

\* an upload with overwrite false whose existence read said "not found" has
\* written the file and succeeded
C21_WrittenAfterNotFound ==
    \E c \in Calls :
        /\ calls[c].tool = "upload_file" /\ calls[c].args.overwrite = Bool(FALSE)
        /\ ReadSettled(calls[c], RemoteNotFound.kind)
        /\ Invoked(calls[c], "files.write")
        /\ calls[c].pc = "done" /\ calls[c].resp.kind = Ok.kind

\* the target the specification gives an upload: the base name of local_path
\* when sandbox_path is absent, null, empty or one of the two sentinels
ExpectedTarget(args) ==
    IF args.sandbox_path \in {Undef, Null, Str(<<>>), Str(NullText), Str(QuotesText)}
      THEN Basename(args.local_path.v)
      ELSE args.sandbox_path.v

\* C22: an upload_file call that succeeds reports as sandbox_path the base
\* name of local_path when sandbox_path was absent, null, "", "null" or "\"\"",
\* and the supplied sandbox_path unchanged otherwise; the existence check of
\* the call reads that same target.
C22_UploadTarget ==
    \A c \in Calls :
        (calls[c].tool = "upload_file" /\ calls[c].pc = "done")
        => /\ calls[c].resp.kind = Ok.kind
                => calls[c].resp.sandbox_path = Str(ExpectedTarget(calls[c].args))
           /\ calls[c].resp.kind = "AlreadyExists"
                => calls[c].resp.message
                      = AlreadyExistsError(ExpectedTarget(calls[c].args)).message

\* an upload whose sandbox_path was the two-quotes sentinel succeeded and
\* reports the base name of its local path
C22_SentinelResolved ==
    \E c \in Calls :
        /\ calls[c].tool = "upload_file" /\ calls[c].pc = "done"
        /\ calls[c].args.sandbox_path = Str(QuotesText)
        /\ calls[c].args.local_path = Str(FileInA)
        /\ calls[c].resp.kind = Ok.kind
        /\ calls[c].resp.sandbox_path = Str(<<"f">>)
        /\ Invoked(calls[c], "files.write")

\* C23 as stated: a resolve without a supplied id stores its sandbox under an
\* id that is not yet a key of the map, and leaves every existing session, its
\* sandbox and its lastAccessed, as it was.
C23_GeneratedIdFresh_AsStated ==
    [][\A c \in Calls :
          (/\ calls[c].pc = "create" /\ calls'[c].sandbox # 0
           /\ ~TruthyId(calls[c].args.session_id))
          => /\ ~MapHas(sessions, calls'[c].sessionId)
             /\ \A i \in 1..Len(sessions) :
                   /\ MapHas(sessions', sessions[i].id)
                   /\ MapGet(sessions', sessions[i].id) = sessions[i]]_vars

\* the call has resolved its session and awaits a remote operation
InFlightWith(rec) == rec.pc \notin {"idle", "done"} /\ rec.sandbox # 0

\* C24 as stated: a pass of the cleanup timer never removes the session of a
\* tool call that resolved it and is still in flight.
C24_NoEvictionInFlight_AsStated ==
    [][SweepStep =>
         \A c \in Calls :
            (/\ InFlightWith(calls[c])
             /\ MapHas(sessions, calls[c].sessionId)
             /\ MapGet(sessions, calls[c].sessionId).sandbox = calls[c].sandbox)
            => MapHas(sessions', calls[c].sessionId)]_vars

\* C25 as stated: from the interrupt that cleared the session map until the
\* process exits, the map is empty: no call whose Sandbox.create() was pending
\* at the interrupt stores a session while the close of the server is awaited.
C25_EmptyUntilExit_AsStated == server = "closing" => sessions = <<>>

\* C26 as stated: a call that was given no session id, created a session and
\* then ended, with a success or with a failure of a later step, answers with
\* the id of the session it created.
C26_CreatedSessionReported_AsStated ==
    \A c \in Calls :
        (/\ calls[c].pc = "done"
         /\ ~TruthyId(calls[c].args.session_id)
         /\ calls[c].sandbox # 0 /\ Invoked(calls[c], "Sandbox.create"))
        => calls[c].resp.session_id = Str(calls[c].sessionId)

\* the call ended before it reached any remote operation: on the allow-list,
\* on the read of the local file, or on the local overwrite check
RejectedLocally(rec) ==
    /\ rec.tool \in {"upload_file", "download_file"}
    /\ rec.pc = "done"
    /\ rec.resp.kind \in {"NoAllowedPaths", "AccessDenied", LocalReadFailed.kind,
                          "AlreadyExists", LocalAccessFailed.kind}
    /\ ~Invoked(rec, "files.read") /\ ~Invoked(rec, "files.write")

\* C27: an upload_file or download_file call rejected before any remote
\* operation never asked for a sandbox, and as long as the call in progress has
\* not done so the session map, the lastAccessed of its sessions included, and
\* the number of sandboxes created stay as they were.
C27_RejectionLeavesSessions ==
    /\ [](RejectedLocally(calls[1])
            => calls[1].sandbox = 0 /\ ~Invoked(calls[1], "Sandbox.create"))
    /\ [][(calls'[1].sandbox = 0 /\ calls'[1].pc # "create")
            => sessions' = sessions /\ nSandboxes' = nSandboxes]_vars

\* a download naming the live session sess_a was rejected for its existing
\* local target, later than the session was last used
C27_RejectedWithLiveSession ==
    /\ RejectedLocally(calls[1])
    /\ calls[1].tool = "download_file" /\ calls[1].resp.kind = "AlreadyExists"
    /\ calls[1].args.session_id = Str("sess_a")
    /\ MapHas(sessions, "sess_a")
    /\ MapGet(sessions, "sess_a").lastAccessed < now
    /\ nSandboxes = 1

====
